---- MODULE Spec2Model ----
(***************************************************************************)
(* TowerJetInput::get_input (jet-input construction from calorimeter       *)
(* towers) as a state machine.                                             *)
(*                                                                         *)
(* State: the process (the function-local static `once`, what was written  *)
(* to the diagnostic stream, whether the process still runs), the          *)
(* TowerJetInput instance (_input), the event on the node tree (which      *)
(* nodes exist, the GlobalVertexMap content, the tower container content,  *)
(* the geometry container content) and what the last get_input call on     *)
(* this instance and event did.                                            *)
(*                                                                         *)
(* Floating point: a value is not-a-number, an infinity, or a finite       *)
(* number held in fixed point (Scale units per 1.0).  Zero has no sign.    *)
(* An angle is held as its (cos, sin) pair and a rapidity as its           *)
(* hyperbolic sine, so atan2/cos/sin and asinh/cosh/sinh are computed      *)
(* from the identities cosh(asinh t) = sqrt(1 + t^2), sinh(asinh t) = t,   *)
(* cos(atan2(y, x)) = x / hypot(x, y), sin(atan2(y, x)) = y / hypot(x, y). *)
(*                                                                         *)
(* assert() is modelled as compiled in (no NDEBUG): a failing assert ends  *)
(* the process.                                                            *)
(***************************************************************************)
EXTENDS Integers, Sequences, FiniteSets, TLC

(* ------------------------------ bounds -------------------------------- *)

\* Largest tower id of an event (tower ids are 1..MaxTowers).
MaxTowers == 2

\* Largest number of entries of the GlobalVertexMap of an event.
MaxVtx == 1

\* Largest number of nodes missing from the node tree of an event.
MaxAbsent == 2

\* Fixed-point units per 1.0 (the precision of the arithmetic below).
Scale == 10 ^ 4

(* --------------------------- floating point --------------------------- *)

NaN == [k |-> "nan", v |-> 0]

PInf == [k |-> "inf", v |-> 1]

NInf == [k |-> "inf", v |-> -1]

Fin(n) == [k |-> "fin", v |-> n]

\* A whole number as a floating-point value.
Num(n) == Fin(n * Scale)

IsNaN(x) == x.k = "nan"

IsInf(x) == x.k = "inf"

IsFinite(x) == x.k = "fin"

Sign(n) == IF n > 0 THEN 1 ELSE IF n < 0 THEN -1 ELSE 0

Abs(n) == IF n < 0 THEN -n ELSE n

\* The sign of a value that is not NaN (zero counts as +0).
FSign(x) == IF x.v < 0 THEN -1 ELSE 1

Inf(s) == IF s < 0 THEN NInf ELSE PInf

\* One doubling step of MulQR: from h = quotient and remainder of a * k by c
\* to those of a * (2 * k + bit) by c.
MulQRStep(h, a, bit, c) ==
    [q |-> 2 * h.q + (2 * h.r + bit * a) \div c, r |-> (2 * h.r + bit * a) % c]

RECURSIVE MulQR(_, _, _)
\* Quotient and remainder of a * b by c (0 <= a < c, b >= 0), by doubling, so
\* that no intermediate value leaves the 32-bit integers TLC computes with.
MulQR(a, b, c) ==
    IF b = 0 THEN [q |-> 0, r |-> 0]
    ELSE MulQRStep(MulQR(a, b \div 2, c), a, b % 2, c)

\* qr = quotient and remainder of (a % c) * b by c: a * b / c to nearest.
MulDivRound(qr, a, b, c) ==
    (a \div c) * b + qr.q + (IF 2 * qr.r >= c THEN 1 ELSE 0)

\* a * b / c rounded to nearest, ties away from zero (c # 0).
MulDiv(a, b, c) ==
    Sign(a) * Sign(b) * Sign(c)
    * MulDivRound(MulQR(Abs(a) % Abs(c), Abs(b), Abs(c)), Abs(a), Abs(b), Abs(c))

RECURSIVE SqrtIter(_, _, _)
\* The largest s in lo..hi with s * s <= n (lo * lo <= n < (hi + 1)^2).
SqrtIter(n, lo, hi) ==
    IF lo >= hi THEN lo
    ELSE LET mid == (lo + hi + 1) \div 2
         IN  IF mid * mid <= n THEN SqrtIter(n, mid, hi)
             ELSE SqrtIter(n, lo, mid - 1)

\* s = the integer part of sqrt(n): sqrt(n) to nearest.
SqrtRound(s, n) == IF n - s * s > s THEN s + 1 ELSE s

\* Integer square root rounded to nearest (0 <= n < 2^31).
ISqrt(n) == SqrtRound(SqrtIter(n, 0, 46340), n)

\* a - b
FSub(a, b) ==
    IF IsNaN(a) \/ IsNaN(b) THEN NaN
    ELSE IF IsInf(a) /\ IsInf(b) THEN (IF a.v = b.v THEN NaN ELSE a)
    ELSE IF IsInf(a) THEN a
    ELSE IF IsInf(b) THEN Inf(-b.v)
    ELSE Fin(a.v - b.v)

\* a * b
FMul(a, b) ==
    IF IsNaN(a) \/ IsNaN(b) THEN NaN
    ELSE IF IsInf(a) \/ IsInf(b)
         THEN (IF a.v = 0 \/ b.v = 0 THEN NaN ELSE Inf(Sign(a.v) * Sign(b.v)))
    ELSE Fin(MulDiv(a.v, b.v, Scale))

\* a / b
FDiv(a, b) ==
    IF IsNaN(a) \/ IsNaN(b) THEN NaN
    ELSE IF IsInf(a) /\ IsInf(b) THEN NaN
    ELSE IF IsInf(a) THEN Inf(a.v * FSign(b))
    ELSE IF IsInf(b) THEN Fin(0)
    ELSE IF b.v = 0 THEN (IF a.v = 0 THEN NaN ELSE Inf(Sign(a.v)))
    ELSE Fin(MulDiv(a.v, Scale, b.v))

Max(a, b) == IF a >= b THEN a ELSE b

\* (xn, yn) / hypot(xn, yn) for xn, yn in -Scale..Scale, h = hypot(xn, yn).
UnitVector(xn, yn, h) ==
    [c |-> Fin(MulDiv(xn, Scale, h)), s |-> Fin(MulDiv(yn, Scale, h))]

\* (xn, yn) / hypot(xn, yn) for xn, yn in -Scale..Scale.
Normalised(xn, yn) == UnitVector(xn, yn, ISqrt(xn * xn + yn * yn))

\* The direction of (x, y) # (0, 0): x / hypot(x, y) and y / hypot(x, y), with
\* x and y first brought to -Scale..Scale.
Direction(x, y) ==
    Normalised(MulDiv(x, Scale, Max(Abs(x), Abs(y))),
               MulDiv(y, Scale, Max(Abs(x), Abs(y))))

\* atan2(y, x): the angle, held as its (cos, sin) pair.  atan2(0, 0) = 0.
Atan2(y, x) ==
    IF IsNaN(y) \/ IsNaN(x) THEN [c |-> NaN, s |-> NaN]
    ELSE IF IsInf(y) \/ IsInf(x)
         THEN Direction(IF IsInf(x) THEN x.v ELSE 0, IF IsInf(y) THEN y.v ELSE 0)
    ELSE IF y.v = 0 /\ x.v = 0 THEN [c |-> Fin(Scale), s |-> Fin(0)]
    ELSE Direction(x.v, y.v)

Cos(phi) == phi.c

Sin(phi) == phi.s

\* asinh(t): the rapidity, held as its hyperbolic sine.
Asinh(t) == [sh |-> t]

Sinh(eta) == eta.sh

\* cosh(eta) is held with Guard more digits than the other values, so that
\* energy / cosh(eta) is right to the last digit kept.
Guard == 10 ^ 2

\* sqrt(n) in units of 1 / Guard, from i = sqrt(n) to nearest.
SqrtFine(i, n) == Guard * i + MulDiv(Guard, n - i * i, 2 * i)

\* cosh(eta) = sqrt(1 + sinh(eta)^2), in units of 1 / (Scale * Guard).
Cosh(eta) ==
    IF IsNaN(eta.sh) THEN NaN
    ELSE IF IsInf(eta.sh) THEN PInf
    ELSE IF Abs(eta.sh.v) <= 4 * Scale
         THEN Fin(SqrtFine(ISqrt(Scale * Scale + eta.sh.v * eta.sh.v),
                           Scale * Scale + eta.sh.v * eta.sh.v))
    ELSE Fin(Guard * 100 * ISqrt((Scale \div 100) * (Scale \div 100)
                                 + (eta.sh.v \div 100) * (eta.sh.v \div 100)))

\* a / c for c a cosh value (never zero, in units of 1 / (Scale * Guard)).
FDivCosh(a, c) ==
    IF IsNaN(a) \/ IsNaN(c) THEN NaN
    ELSE IF IsInf(a) /\ IsInf(c) THEN NaN
    ELSE IF IsInf(a) THEN a
    ELSE IF IsInf(c) THEN Fin(0)
    ELSE Fin(MulDiv(a.v, Scale * Guard, c.v))

(* ------------------------------ the data ------------------------------ *)

\* Jet::SRC values get_input has a branch for (lines 57-104).
SupportedSRC ==
    {"CEMC_TOWER", "HCALIN_TOWER", "HCALOUT_TOWER", "FEMC_TOWER", "FHCAL_TOWER",
     "CEMC_TOWER_SUB1", "HCALIN_TOWER_SUB1", "HCALOUT_TOWER_SUB1"}

\* Jet::SRC: the supported values and one that get_input has no branch for.
SRC == SupportedSRC \cup {"TRACK"}

VertexNode == "GlobalVertexMap"

TowerNodes ==
    {"TOWER_CALIB_CEMC", "TOWER_CALIB_HCALIN", "TOWER_CALIB_HCALOUT",
     "TOWER_CALIB_FEMC", "TOWER_CALIB_FHCAL", "TOWER_CALIB_CEMC_RETOWER_SUB1",
     "TOWER_CALIB_HCALIN_SUB1", "TOWER_CALIB_HCALOUT_SUB1"}

GeomNodes ==
    {"TOWERGEOM_CEMC", "TOWERGEOM_HCALIN", "TOWERGEOM_HCALOUT", "TOWERGEOM_FEMC",
     "TOWERGEOM_FHCAL"}

\* Every node name get_input may ask the node tree for.
NodeNames == {VertexNode} \cup TowerNodes \cup GeomNodes

\* The node trees of the model: at most MaxAbsent nodes are missing.
IsNodeTree(t) == t \subseteq NodeNames /\ Cardinality(NodeNames \ t) <= MaxAbsent

\* GlobalVertex::get_z() values: not-a-number, the infinities, two finite ones.
ZVals == {NaN, PInf, NInf, Num(0), Num(20)}

\* An entry's GlobalVertex*: a null pointer or a vertex with its z.
NullVtx == [ptr |-> "null", z |-> NaN]

Vtx(z) == [ptr |-> "obj", z |-> z]

\* A pointer to memory that cannot be read.
WildVtx == [ptr |-> "wild", z |-> NaN]

VtxEntries == {NullVtx} \cup {Vtx(z) : z \in ZVals}

\* GlobalVertexMap contents, in the map's iteration order.
VertexMaps == UNION {[1..n -> VtxEntries] : n \in 0..MaxVtx}

TowerIds == 1..MaxTowers

\* RawTower::get_energy() values: a negative and a positive one.
Energies == {Num(-5), Num(10)}

\* RawTowerContainer contents: tower id -> energy, for the towers it holds.
TowerContents == UNION {[ids -> Energies] : ids \in SUBSET TowerIds}

\* The RawTowerGeom of a tower id in the (static) geometry table:
\* center x, y, z and center radius.
TowerGeomOf(id) ==
    CASE id % 3 = 1 -> [x |-> Num(100), y |-> Num(0), z |-> Num(50), r |-> Num(100)]
      [] id % 3 = 2 -> [x |-> Num(0), y |-> Num(0), z |-> Num(50), r |-> Num(0)]
      [] OTHER      -> [x |-> Num(30), y |-> Num(40), z |-> Num(-120), r |-> Num(50)]

\* RawTowerGeomContainer contents: the tower ids that have a geometry entry.
GeomContents == SUBSET TowerIds

\* The event the others are varied from: every node on the tree, every tower
\* id in the tower container and in the geometry container, one vertex.
NominalTowers == [id \in TowerIds |-> IF id % 2 = 1 THEN Num(10) ELSE Num(-5)]

NominalGeom == TowerIds

NominalVertexMap == <<Vtx(Num(0))>>

(* ------------------------- TowerJetInput.cc --------------------------- *)

\* findNode::getClass<T>(topNode, name): the node if it is on the tree.
getClass(tree, name) == name \in tree

\* The tower container node each Jet::SRC branch asks for.
TowerNode(src) ==
    CASE src = "CEMC_TOWER"         -> "TOWER_CALIB_CEMC"
      [] src = "HCALIN_TOWER"       -> "TOWER_CALIB_HCALIN"
      [] src = "HCALOUT_TOWER"      -> "TOWER_CALIB_HCALOUT"
      [] src = "FEMC_TOWER"         -> "TOWER_CALIB_FEMC"
      [] src = "FHCAL_TOWER"        -> "TOWER_CALIB_FHCAL"
      [] src = "CEMC_TOWER_SUB1"    -> "TOWER_CALIB_CEMC_RETOWER_SUB1"
      [] src = "HCALIN_TOWER_SUB1"  -> "TOWER_CALIB_HCALIN_SUB1"
      [] src = "HCALOUT_TOWER_SUB1" -> "TOWER_CALIB_HCALOUT_SUB1"

\* The geometry container node each Jet::SRC branch asks for.
GeomNode(src) ==
    CASE src = "CEMC_TOWER"         -> "TOWERGEOM_CEMC"
      [] src = "HCALIN_TOWER"       -> "TOWERGEOM_HCALIN"
      [] src = "HCALOUT_TOWER"      -> "TOWERGEOM_HCALOUT"
      [] src = "FEMC_TOWER"         -> "TOWERGEOM_FEMC"
      [] src = "FHCAL_TOWER"        -> "TOWERGEOM_FHCAL"
      [] src = "CEMC_TOWER_SUB1"    -> "TOWERGEOM_HCALIN"
      [] src = "HCALIN_TOWER_SUB1"  -> "TOWERGEOM_HCALIN"
      [] src = "HCALOUT_TOWER_SUB1" -> "TOWERGEOM_HCALOUT"

\* Whether the if/else-if chain has a branch for src (else: line 105).
HasBranch(src) == src \in SupportedSRC

\* What a call did: how it ended ("returned", or "aborted" when the process
\* was ended), the vector it returned, the line it left from, the nodes it
\* asked the tree for (in order), whether it printed the NAN-vertex warning,
\* and the value of `once` it leaves behind.  Exits: L50 assert(vertexmap),
\* L61 a container is missing (lines 61, 67, ... 103), L106 no branch for
\* _input, L112 get_z() on a pointer that cannot be read, L113 null vertex,
\* L125 NAN vertex, L136 assert(tower_geom), L163 the loop is done.
Result(outcome, jets, exit, lookups, warned, onceAfter) ==
    [outcome |-> outcome, jets |-> jets, exit |-> exit, lookups |-> lookups,
     warned |-> warned, once |-> onceAfter]

\* No call yet on this instance and event.
NoCall == Result("none", <<>>, "none", <<>>, FALSE, TRUE)

\* The Jet with the transverse momentum stored as its energy.
JetOf_energyPt(src, id, energy, pt, phi, eta) ==
    [px |-> FMul(pt, Cos(phi)),
     py |-> FMul(pt, Sin(phi)),
     pz |-> FMul(pt, Sinh(eta)),
     e  |-> pt,
     comp |-> <<<<src, id>>>>]

\* The Jet tagged with a fixed source instead of _input.
JetOf_fixedSrc(src, id, energy, pt, phi, eta) ==
    [px |-> FMul(pt, Cos(phi)),
     py |-> FMul(pt, Sin(phi)),
     pz |-> FMul(pt, Sinh(eta)),
     e  |-> energy,
     comp |-> <<<<"CEMC_TOWER", id>>>>]

\* Lines 147-156: the Jet from pt, phi, eta and the tower.
JetOf(src, id, energy, pt, phi, eta) ==
    [px |-> FMul(pt, Cos(phi)),
     py |-> FMul(pt, Sin(phi)),
     pz |-> FMul(pt, Sinh(eta)),
     e  |-> energy,
     comp |-> <<<<src, id>>>>]

\* The Jet with pt = energy: no division by cosh(eta).
JetAt_noCosh(src, id, energy, phi, eta) ==
    JetOf(src, id, energy, energy, phi, eta)

\* Line 146: pt = energy / cosh(eta), then the Jet.
JetAt(src, id, energy, phi, eta) ==
    JetOf(src, id, energy, FDivCosh(energy, Cosh(eta)), phi, eta)

\* Lines 138-156: the Jet built from one tower, its geometry and the vertex z:
\* r, phi, z0, z = z0 - vtxz, eta = asinh(z / r), then pt and the Jet.
MakeJet(src, id, energy, tower_geom, vtxz) ==
    JetAt(src, id, energy,
          Atan2(tower_geom.y, tower_geom.x),
          Asinh(FDiv(FSub(tower_geom.z, vtxz), tower_geom.r)))

\* No entry is found for a tower of radius zero.
get_tower_geometry_nonzero(geom, key) == key \in geom /\ TowerGeomOf(key).r.v # 0

\* RawTowerGeomContainer::get_tower_geometry(key): the entry, if there is one.
get_tower_geometry(geom, key) == key \in geom

\* The keys of the tower container from `from` on, in iteration (key) order.
RECURSIVE KeysFrom(_, _)
KeysFrom(towers, from) ==
    IF \A k \in DOMAIN towers : k < from THEN <<>>
    ELSE LET k == CHOOSE k \in DOMAIN towers :
                      k >= from /\ \A j \in DOMAIN towers : j >= from => k <= j
         IN  <<k>> \o KeysFrom(towers, k + 1)

\* getTowers() with the range starting one tower late.
getTowers_skipFirst(towers) ==
    IF DOMAIN towers = {} THEN <<>>
    ELSE KeysFrom(towers, 1 + CHOOSE k \in DOMAIN towers :
                                  \A j \in DOMAIN towers : k <= j)

\* RawTowerContainer::getTowers(): the keys in iteration order.
getTowers(towers) == KeysFrom(towers, 0)

\* Lines 131-159: the loop over the towers from position i on, with the
\* pseudojets pushed so far.  assert(tower_geom) ends the process.
RECURSIVE TowerLoop(_, _, _, _, _, _, _)
TowerLoop(src, towers, geom, vtxz, keys, i, pseudojets) ==
    IF i > Len(keys) THEN [aborted |-> FALSE, pseudojets |-> pseudojets]
    ELSE IF ~get_tower_geometry(geom, keys[i])
         THEN [aborted |-> TRUE, pseudojets |-> pseudojets]
    ELSE TowerLoop(src, towers, geom, vtxz, keys, i + 1,
                   Append(pseudojets,
                          MakeJet(src, keys[i], towers[keys[i]],
                                  TowerGeomOf(keys[i]), vtxz)))

\* The last entry of the map instead of the first.
FirstVertex_last(vertexmap, garbage) ==
    IF Len(vertexmap) = 0 THEN garbage ELSE vertexmap[Len(vertexmap)]

\* Line 110: vertexmap->begin()->second.  On an empty map begin() is end()
\* and the read is undefined: it yields whatever `garbage` is.
FirstVertex(vertexmap, garbage) ==
    IF Len(vertexmap) = 0 THEN garbage ELSE vertexmap[1]

\* The vertex check left out.
VertexRejected_never(vtxz) == FALSE

\* Line 115: isnan(vtxz).
VertexRejected(vtxz) == IsNaN(vtxz)

\* The loop skipping a tower without geometry instead of asserting: the call
\* returns what the loop built.
AfterLoop_partial(loop, once, lookups) ==
    Result("returned", loop.pseudojets, "L163", lookups, FALSE, once)

\* Lines 128-163: the loop has run; what the call returns.
AfterLoop(loop, once, lookups) ==
    IF loop.aborted
    THEN Result("aborted", <<>>, "L136", lookups, FALSE, once)
    ELSE Result("returned", loop.pseudojets, "L163", lookups, FALSE, once)

\* Lines 111-163 with `once = false` left out.
WithVertex_onceKept(src, vtx, towers, geom, once, lookups) ==
    IF vtx.ptr = "null"
    THEN Result("returned", <<>>, "L113", lookups, FALSE, once)
    ELSE IF vtx.ptr = "wild"
    THEN Result("aborted", <<>>, "L112", lookups, FALSE, once)
    ELSE IF VertexRejected(vtx.z)
    THEN Result("returned", <<>>, "L125", lookups, once, once)
    ELSE AfterLoop(TowerLoop(src, towers, geom, vtx.z, getTowers(towers), 1, <<>>),
                   once, lookups)

\* Lines 111-163: vtx is the GlobalVertex* read at line 110.
WithVertex(src, vtx, towers, geom, once, lookups) ==
    IF vtx.ptr = "null"
    THEN Result("returned", <<>>, "L113", lookups, FALSE, once)
    ELSE IF vtx.ptr = "wild"
    THEN Result("aborted", <<>>, "L112", lookups, FALSE, once)
    ELSE IF VertexRejected(vtx.z)
    THEN Result("returned", <<>>, "L125", lookups, once, FALSE)
    ELSE AfterLoop(TowerLoop(src, towers, geom, vtx.z, getTowers(towers), 1, <<>>),
                   once, lookups)

\* Lines 109-163: from the vertex on, the containers being there.
FromVertex(src, vertexmap, towers, geom, once, garbage, lookups) ==
    WithVertex(src, FirstVertex(vertexmap, garbage), towers, geom, once, lookups)

\* The branch testing `!towers` only: a missing geometry container is
\* dereferenced in the loop.
FromSupported_towersOnly(src, tree, vertexmap, towers, geom, once, garbage, lookups) ==
    IF ~getClass(tree, TowerNode(src))
    THEN Result("returned", <<>>, "L61",
                lookups \o <<TowerNode(src), GeomNode(src)>>, FALSE, once)
    ELSE IF ~getClass(tree, GeomNode(src))
    THEN Result("aborted", <<>>, "L135",
                lookups \o <<TowerNode(src), GeomNode(src)>>, FALSE, once)
    ELSE FromVertex(src, vertexmap, towers, geom, once, garbage,
                    lookups \o <<TowerNode(src), GeomNode(src)>>)

\* Lines 57-104: the branch of src: its two nodes, then the rest of the call.
FromSupported(src, tree, vertexmap, towers, geom, once, garbage, lookups) ==
    IF ~getClass(tree, TowerNode(src)) \/ ~getClass(tree, GeomNode(src))
    THEN Result("returned", <<>>, "L61",
                lookups \o <<TowerNode(src), GeomNode(src)>>, FALSE, once)
    ELSE FromVertex(src, vertexmap, towers, geom, once, garbage,
                    lookups \o <<TowerNode(src), GeomNode(src)>>)

\* The chain without its last else: the call goes on with null containers.
FromBranch_noElse(src, tree, vertexmap, towers, geom, once, garbage, lookups) ==
    IF ~HasBranch(src)
    THEN Result("aborted", <<>>, "L129", lookups, FALSE, once)
    ELSE FromSupported(src, tree, vertexmap, towers, geom, once, garbage, lookups)

\* Lines 55-107: the if/else-if chain over _input; its last else returns.
FromBranch(src, tree, vertexmap, towers, geom, once, garbage, lookups) ==
    IF ~HasBranch(src)
    THEN Result("returned", <<>>, "L106", lookups, FALSE, once)
    ELSE FromSupported(src, tree, vertexmap, towers, geom, once, garbage, lookups)

\* get_input with the assert at line 50 compiled out: line 52 returns.
GetInput_noAssert(src, tree, vertexmap, towers, geom, once, garbage) ==
    IF ~getClass(tree, VertexNode)
    THEN Result("returned", <<>>, "L52", <<VertexNode>>, FALSE, once)
    ELSE FromBranch(src, tree, vertexmap, towers, geom, once, garbage,
                    <<VertexNode>>)

\* Lines 42-164: TowerJetInput::get_input(topNode) on an instance with
\* _input = src, with the static `once` as it stands.
GetInput(src, tree, vertexmap, towers, geom, once, garbage) ==
    IF ~getClass(tree, VertexNode)
    THEN Result("aborted", <<>>, "L50", <<VertexNode>>, FALSE, once)
    ELSE FromBranch(src, tree, vertexmap, towers, geom, once, garbage,
                    <<VertexNode>>)

(* ------------------------------ the state ----------------------------- *)

VARIABLES
    _input,     \* TowerJetInput::_input of the instance in use
    tree,       \* the nodes on the event's node tree (topNode)
    vertexmap,  \* the GlobalVertexMap content of the event
    towers,     \* the RawTowerContainer content of the event
    geom,       \* the RawTowerGeomContainer content of the event
    once,       \* the static bool `once` of get_input
    nWarn,      \* how many NAN-vertex warnings were written to cout
    alive,      \* the process has not been ended by an assert or a crash
    ret,        \* the last get_input call on this instance and event
    threads,    \* the get_input calls that run concurrently, one per thread
    kin,        \* one tower's kinematics transform: its input and its Jet
    pair,       \* two vertex collections and what get_input returns on each
    row         \* one reconstructed vertex and its row of the vertex eval tree

\* The state outside the one-call-at-a-time run of get_input.
aside == <<threads, kin, pair, row>>

\* The state outside the concurrent calls, outside the lone transform and
\* outside the pair of vertex collections.
notThreads == <<kin, pair, row>>
notKin == <<threads, pair, row>>
notPair == <<threads, kin, row>>
notRow == <<threads, kin, pair>>

vars == <<_input, tree, vertexmap, towers, geom, once, nWarn, alive, ret, aside>>

\* Bound: the threads that call get_input concurrently.
MaxThreads == 3

Threads == 1..MaxThreads

\* A thread that has not called get_input: where it stands in the code (pc),
\* the z of the first vertex of its event (vtxz), what `if (once)` evaluated to
\* (saw), the value `once` had at that read (flag), whether it wrote the
\* warning (warned), what it returned (ret).
IdleThread ==
    [pc |-> "idle", vtxz |-> NaN, saw |-> FALSE, flag |-> FALSE,
     warned |-> FALSE, ret |-> "none"]

\* No concurrent call is under way.
NoThreads == [t \in Threads |-> IdleThread]

\* The Jet fields before the setters of lines 152-156 ran.
NoJet == [px |-> NaN, py |-> NaN, pz |-> NaN, e |-> NaN, comp |-> <<>>]

\* The transform of lines 138-156 has not been applied to tower `tw`, a record
\* of the tower's energy, its geometry and the vertex z.
KinInput(tw) == [in |-> tw, done |-> FALSE, out |-> NoJet]

\* PHG4TrackFastSimEval::reset_variables(): the value of the integer tree
\* variables that were not set.
NoValue == -9999

\* The truth-vertex variables of a row after reset_variables(): nothing filled.
ResetRow == [filled |-> FALSE, gTrackID |-> NoValue, nFromTruth |-> NoValue]

\* A reconstructed vertex (vertex = FALSE: the map holds a null pointer) with
\* its tracks in the order of begin_tracks(), before its row is made.
NewRow(vertex, tracks) ==
    [vertex |-> vertex, tracks |-> tracks, outcome |-> "none", out |-> ResetRow]

\* Two GlobalVertexMap contents a and b, get_input not yet called on either.
NewPair(a, b) == [a |-> a, b |-> b, ra |-> NoCall, rb |-> NoCall]

\* The tower of the specification's worked example: energy 10, centre
\* (100, 0, 50), radius 100, vertex z 0.
ExampleTower ==
    [energy |-> Num(10), x |-> Num(100), y |-> Num(0), z |-> Num(50),
     r |-> Num(100), vtxz |-> Num(0)]

Init ==
    /\ _input \in SRC
    /\ tree = NodeNames
    /\ vertexmap = NominalVertexMap
    /\ towers = NominalTowers
    /\ geom = NominalGeom
    /\ once = TRUE
    /\ nWarn = 0
    /\ alive = TRUE
    /\ ret = NoCall
    /\ threads = NoThreads
    /\ kin = KinInput(ExampleTower)
    /\ pair = NewPair(NominalVertexMap, NominalVertexMap)
    /\ row = NewRow(TRUE, <<>>)

\* TowerJetInput::TowerJetInput(Jet::SRC input): another instance is used.
Construct ==
    /\ alive
    /\ \E src \in SRC : _input' = src
    /\ ret' = NoCall
    /\ UNCHANGED <<tree, vertexmap, towers, geom, once, nWarn, alive>>
    /\ UNCHANGED aside

\* The events of the model differ from the nominal one in the nodes on the
\* tree or in the container contents, not in both.
ContentsNominal == towers = NominalTowers /\ geom = NominalGeom

\* The next event has one node more or one node less on its tree.
LoadTree ==
    /\ alive
    /\ ContentsNominal
    /\ \E n \in NodeNames :
         /\ tree' = IF n \in tree THEN tree \ {n} ELSE tree \cup {n}
         /\ IsNodeTree(tree')
    /\ ret' = NoCall
    /\ UNCHANGED <<_input, vertexmap, towers, geom, once, nWarn, alive>>
    /\ UNCHANGED aside

\* The next event has one vertex more or one vertex less in its GlobalVertexMap.
LoadVertexMap ==
    /\ alive
    /\ \/ /\ Len(vertexmap) < MaxVtx
          /\ \E e \in VtxEntries : vertexmap' = Append(vertexmap, e)
       \/ /\ Len(vertexmap) > 0
          /\ vertexmap' = SubSeq(vertexmap, 1, Len(vertexmap) - 1)
    /\ ret' = NoCall
    /\ UNCHANGED <<_input, tree, towers, geom, once, nWarn, alive>>
    /\ UNCHANGED aside

\* The next event has one tower more, one tower less or one tower with
\* another energy in its tower container.
LoadTowers ==
    /\ alive
    /\ tree = NodeNames
    /\ \/ \E id \in TowerIds, e \in Energies :
            towers' = [k \in DOMAIN towers \cup {id} |-> IF k = id THEN e ELSE towers[k]]
       \/ \E id \in DOMAIN towers :
            towers' = [k \in DOMAIN towers \ {id} |-> towers[k]]
    /\ towers' # towers
    /\ ret' = NoCall
    /\ UNCHANGED <<_input, tree, vertexmap, geom, once, nWarn, alive>>
    /\ UNCHANGED aside

\* The geometry container has one entry more or one entry less.
LoadGeom ==
    /\ alive
    /\ tree = NodeNames
    /\ \E id \in TowerIds :
         geom' = IF id \in geom THEN geom \ {id} ELSE geom \cup {id}
    /\ ret' = NoCall
    /\ UNCHANGED <<_input, tree, vertexmap, towers, once, nWarn, alive>>
    /\ UNCHANGED aside

\* What the undefined read of line 110 can yield: a null pointer, a pointer
\* that cannot be read, or a pointer to memory read as some z.
Garbage == VtxEntries \cup {WildVtx}

\* The call did r: what it leaves behind in the process.
Leave(r) ==
    /\ ret' = r
    /\ once' = r.once
    /\ nWarn' = IF r.warned THEN nWarn + 1 ELSE nWarn
    /\ alive' = (r.outcome # "aborted")

\* TowerJetInput::get_input(topNode): one call, start to end.
get_input ==
    /\ alive
    /\ \E garbage \in (IF Len(vertexmap) = 0 THEN Garbage ELSE {NullVtx}) :
         Leave(GetInput(_input, tree, vertexmap, towers, geom, once, garbage))
    /\ UNCHANGED <<_input, tree, vertexmap, towers, geom>>
    /\ UNCHANGED aside

Next ==
    \/ Construct
    \/ LoadTree
    \/ LoadVertexMap
    \/ LoadTowers
    \/ LoadGeom
    \/ get_input

Spec == Init /\ [][Next]_vars

(* ------------------- get_input called from several threads ------------ *)

\* Lines 115-126 are not atomic: the read of the static `once` (line 118), the
\* write `once = false` (line 120) and the output to cout (lines 122-123) are
\* separate accesses, and calls on different threads interleave between them.
\* Each thread has its own event (the nominal containers and one vertex).

\* The first-vertex z a thread's event can hold.
ThreadZ == {NaN, Num(0)}

OnceTest_always(flag) == TRUE

\* Line 118: `if (once)`.
OnceTest(flag) == flag

\* Lines 46-115 on thread t: the lookups and the vertex are local to the call;
\* a call with a valid vertex runs the loop and returns without touching `once`.
Call(t) ==
    /\ threads[t].pc = "idle"
    /\ \E z \in ThreadZ :
         threads' = [threads EXCEPT ![t] =
            IF VertexRejected(z)
            THEN [@ EXCEPT !.pc = "L118", !.vtxz = z]
            ELSE [@ EXCEPT !.pc = "done", !.vtxz = z,
                    !.ret = WithVertex(_input, Vtx(z), NominalTowers, NominalGeom,
                                       once, <<>>).jets]]
    /\ UNCHANGED <<_input, tree, vertexmap, towers, geom, once, nWarn, alive, ret>>
    /\ UNCHANGED notThreads

\* Line 118 on thread t: the read of `once`.
TestOnce(t) ==
    /\ threads[t].pc = "L118"
    /\ threads' = [threads EXCEPT ![t] =
            [@ EXCEPT !.saw = OnceTest(once), !.flag = once,
                      !.pc = IF OnceTest(once) THEN "L120" ELSE "L125"]]
    /\ UNCHANGED <<_input, tree, vertexmap, towers, geom, once, nWarn, alive, ret>>
    /\ UNCHANGED notThreads

\* Line 120 on thread t: `once = false`.
ClearOnce(t) ==
    /\ threads[t].pc = "L120"
    /\ once' = FALSE
    /\ threads' = [threads EXCEPT ![t] = [@ EXCEPT !.pc = "L122"]]
    /\ UNCHANGED <<_input, tree, vertexmap, towers, geom, nWarn, alive, ret>>
    /\ UNCHANGED notThreads

\* Lines 122-123 on thread t: the warning goes to cout.
Warn(t) ==
    /\ threads[t].pc = "L122"
    /\ nWarn' = nWarn + 1
    /\ threads' = [threads EXCEPT ![t] = [@ EXCEPT !.pc = "L125", !.warned = TRUE]]
    /\ UNCHANGED <<_input, tree, vertexmap, towers, geom, once, alive, ret>>
    /\ UNCHANGED notThreads

\* Line 125 on thread t: `return std::vector<Jet *>();`.
ReturnEmpty(t) ==
    /\ threads[t].pc = "L125"
    /\ threads' = [threads EXCEPT ![t] = [@ EXCEPT !.pc = "done", !.ret = <<>>]]
    /\ UNCHANGED <<_input, tree, vertexmap, towers, geom, once, nWarn, alive, ret>>
    /\ UNCHANGED notThreads

InitConc ==
    /\ _input = "CEMC_TOWER"
    /\ tree = NodeNames
    /\ vertexmap = NominalVertexMap
    /\ towers = NominalTowers
    /\ geom = NominalGeom
    /\ once = TRUE
    /\ nWarn = 0
    /\ alive = TRUE
    /\ ret = NoCall
    /\ threads = NoThreads
    /\ kin = KinInput(ExampleTower)
    /\ pair = NewPair(NominalVertexMap, NominalVertexMap)
    /\ row = NewRow(TRUE, <<>>)

NextConc ==
    \/ \E t \in Threads : Call(t)
    \/ \E t \in Threads : TestOnce(t)
    \/ \E t \in Threads : ClearOnce(t)
    \/ \E t \in Threads : Warn(t)
    \/ \E t \in Threads : ReturnEmpty(t)

SpecConc == InitConc /\ [][NextConc]_vars

(* -------------------- the kinematics transform alone ------------------ *)

\* Lines 138-156 as a function of one tower: its energy, its geometry
\* (get_center_x, _y, _z, get_center_radius) and the vertex z of the call.
KinTowers ==
    [energy : {Num(-5), Num(10)},
     x : {Num(-40), Num(0), Num(30), Num(100)},
     y : {Num(-40), Num(0), Num(30), Num(100)},
     z : {Num(-120), Num(50)},
     r : {Num(50), Num(100)},
     vtxz : {Num(0), Num(20)}]

\* Lines 138-156 applied to the tower at hand.
Transform ==
    /\ ~kin.done
    /\ kin' = [kin EXCEPT !.done = TRUE,
                          !.out = MakeJet(_input, 1, kin.in.energy, kin.in, kin.in.vtxz)]
    /\ UNCHANGED <<_input, tree, vertexmap, towers, geom, once, nWarn, alive, ret>>
    /\ UNCHANGED notKin

InitKin ==
    /\ _input = "CEMC_TOWER"
    /\ tree = NodeNames
    /\ vertexmap = NominalVertexMap
    /\ towers = NominalTowers
    /\ geom = NominalGeom
    /\ once = TRUE
    /\ nWarn = 0
    /\ alive = TRUE
    /\ ret = NoCall
    /\ threads = NoThreads
    /\ \E tw \in KinTowers : kin = KinInput(tw)
    /\ pair = NewPair(NominalVertexMap, NominalVertexMap)
    /\ row = NewRow(TRUE, <<>>)

NextKin == Transform

SpecKin == InitKin /\ [][NextKin]_vars

(* ----------------- two events that share their first vertex ----------- *)

\* get_input is called on two events that differ only in their GlobalVertexMap:
\* both maps are non-empty and have the same first entry (std::map order).

\* Bound: the entries a vertex collection has after its first.
MaxTail == 1

\* What can follow the first entry of a vertex collection.
Tails == UNION {[1..n -> VtxEntries] : n \in 0..MaxTail}

\* get_input on the event that holds pair.a.
CallA ==
    /\ pair.ra.outcome = "none"
    /\ pair' = [pair EXCEPT !.ra = GetInput(_input, tree, pair.a, towers, geom,
                                            once, NullVtx)]
    /\ UNCHANGED <<_input, tree, vertexmap, towers, geom, once, nWarn, alive, ret>>
    /\ UNCHANGED notPair

\* get_input on the event that holds pair.b, from the same process state.
CallB ==
    /\ pair.rb.outcome = "none"
    /\ pair' = [pair EXCEPT !.rb = GetInput(_input, tree, pair.b, towers, geom,
                                            once, NullVtx)]
    /\ UNCHANGED <<_input, tree, vertexmap, towers, geom, once, nWarn, alive, ret>>
    /\ UNCHANGED notPair

InitPair ==
    /\ _input = "CEMC_TOWER"
    /\ tree = NodeNames
    /\ vertexmap = NominalVertexMap
    /\ towers = NominalTowers
    /\ geom = NominalGeom
    /\ once \in BOOLEAN
    /\ nWarn = IF once THEN 0 ELSE 1
    /\ alive = TRUE
    /\ ret = NoCall
    /\ threads = NoThreads
    /\ kin = KinInput(ExampleTower)
    /\ \E first \in VtxEntries, ta \in Tails, tb \in Tails :
         pair = NewPair(<<first>> \o ta, <<first>> \o tb)
    /\ row = NewRow(TRUE, <<>>)

NextPair == CallA \/ CallB

SpecPair == InitPair /\ [][NextPair]_vars

(* ------------- PHG4TrackFastSimEval::fill_vertex_tree, one row -------- *)

\* Bounds: the tracks of a reconstructed vertex, the truth vertices.
MaxTracks == 3
MaxTruthVtx == 2

\* PHG4VtxPoint pointers: 0 is the null pointer, 1..MaxTruthVtx the truth
\* vertices (the id of a vertex stands for its address).
NullPoint == 0
VtxPoints == 0..MaxTruthVtx

\* What a track id of the vertex leads to: no entry in m_TrackMap (line 419),
\* a track that is no SvtxTrack_FastSim (line 423), a fast-sim track whose truth
\* particle GetParticle does not find (line 427), or a fast-sim track with the
\* pointer GetVtx returns for its particle's vertex id (line 428).
TrackLeads ==
    {[kind |-> k, vtx |-> NullPoint] : k \in {"absent", "other", "noparticle"}}
    \cup {[kind |-> "truth", vtx |-> v] : v \in VtxPoints}

\* The track lists of a vertex.
TrackLists == UNION {[1..n -> TrackLeads] : n \in 0..MaxTracks}

\* Lines 411-413: best_vtx, best_n_match and the empty vertex_match_map.
VoteStart ==
    [aborted |-> FALSE, best_vtx |-> NullPoint, best_n_match |-> -1,
     vertex_match_map |-> [v \in VtxPoints |-> 0]]

\* Lines 430-436: n_match = ++vertex_match_map[vtx]; a strictly larger count
\* becomes the best.
Match(vote, vtx, n_match) ==
    [vote EXCEPT !.vertex_match_map[vtx] = n_match,
                 !.best_n_match = IF n_match > @ THEN n_match ELSE @,
                 !.best_vtx = IF n_match > vote.best_n_match THEN vtx ELSE @]

\* Lines 416-436: one pass of the loop over the vertex's tracks.
VoteStep(vote, lead) ==
    IF lead.kind \in {"absent", "other"} THEN vote
    ELSE IF lead.kind = "noparticle" THEN [vote EXCEPT !.aborted = TRUE]
    ELSE Match(vote, lead.vtx, vote.vertex_match_map[lead.vtx] + 1)

RECURSIVE VoteLoop(_, _, _)
\* Lines 414-437: the loop from track i on; assert(g4particle) ends it.
VoteLoop(tracks, i, vote) ==
    IF vote.aborted \/ i > Len(tracks) THEN vote
    ELSE VoteLoop(tracks, i + 1, VoteStep(vote, tracks[i]))

\* Lines 438-448: the truth variables are set if best_vtx is not null, and
\* the row is filled into the tree.
RowOf(vote) ==
    IF vote.aborted THEN [outcome |-> "aborted", out |-> ResetRow]
    ELSE IF vote.best_vtx # NullPoint
    THEN [outcome |-> "filled",
          out |-> [filled |-> TRUE, gTrackID |-> vote.best_vtx,
                   nFromTruth |-> vote.best_n_match]]
    ELSE [outcome |-> "filled", out |-> ResetRow]

\* Lines 386-448: one pass of the loop over m_VertexMap; a null vertex is
\* skipped without a row.
fill_vertex_tree ==
    /\ row.outcome = "none"
    /\ row' = IF ~row.vertex
              THEN [row EXCEPT !.outcome = "skipped"]
              ELSE [row EXCEPT !.outcome = RowOf(VoteLoop(row.tracks, 1, VoteStart)).outcome,
                               !.out = RowOf(VoteLoop(row.tracks, 1, VoteStart)).out]
    /\ UNCHANGED <<_input, tree, vertexmap, towers, geom, once, nWarn, alive, ret>>
    /\ UNCHANGED notRow

InitEval ==
    /\ _input = "CEMC_TOWER"
    /\ tree = NodeNames
    /\ vertexmap = NominalVertexMap
    /\ towers = NominalTowers
    /\ geom = NominalGeom
    /\ once = TRUE
    /\ nWarn = 0
    /\ alive = TRUE
    /\ ret = NoCall
    /\ threads = NoThreads
    /\ kin = KinInput(ExampleTower)
    /\ pair = NewPair(NominalVertexMap, NominalVertexMap)
    /\ \E vertex \in BOOLEAN, tracks \in TrackLists : row = NewRow(vertex, tracks)

NextEval == fill_vertex_tree

SpecEval == InitEval /\ [][NextEval]_vars

(* ------------------------------ the claims ---------------------------- *)

\* A get_input call has been made on this instance and event.
Called == ret.outcome # "none"

\* The call returned a vector to its caller (it did not end the process).
ReturnedSeq == ret.outcome = "returned"

\* The call returned the empty vector.
ReturnedEmpty == ReturnedSeq /\ ret.jets = <<>>

\* The call ended the process; nothing was returned.
Fatal == ret.outcome = "aborted" /\ ret.jets = <<>> /\ ~alive

\* The tower and the geometry container of the instance's source are on the tree.
ContainersPresent ==
    /\ _input \in SupportedSRC
    /\ TowerNode(_input) \in tree
    /\ GeomNode(_input) \in tree

\* The vertex collection is on the tree and its first entry holds a vertex.
HasSelectedVertex ==
    /\ VertexNode \in tree
    /\ Len(vertexmap) > 0
    /\ vertexmap[1].ptr = "obj"

\* The z of the selected vertex (under HasSelectedVertex).
SelectedZ == vertexmap[1].z

\* The number of towers in the tower container.
NTowers == Cardinality(DOMAIN towers)

\* The id of the i-th tower in the container's iteration order (ascending key).
IthTower(i) ==
    CHOOSE k \in DOMAIN towers : Cardinality({j \in DOMAIN towers : j <= k}) = i

\* Every tower of the tower container has an entry in the geometry container.
GeometryComplete == DOMAIN towers \subseteq geom

\* C1 as stated: with a supported selector, its two containers present, the
\* vertex collection present and a finite selected z, the call returns one
\* object per tower of the tower container.
C1_AsStated ==
    (Called /\ ContainersPresent /\ HasSelectedVertex /\ IsFinite(SelectedZ))
        => (ReturnedSeq /\ Len(ret.jets) = NTowers)

\* C1 (amended): with a supported selector, its two containers present, the
\* vertex collection present, a finite selected z and a geometry entry for every
\* tower, the call returns a sequence as long as the tower container, and every
\* tower, whatever its energy, is the origin of exactly one output object.
C1_OnePerTower ==
    (Called /\ ContainersPresent /\ HasSelectedVertex /\ IsFinite(SelectedZ)
        /\ GeometryComplete)
        => /\ ReturnedSeq
           /\ Len(ret.jets) = NTowers
           /\ \A id \in DOMAIN towers :
                Cardinality({i \in 1..Len(ret.jets) :
                                ret.jets[i].comp[1][2] = id}) = 1

C1_Witness ==
    /\ Called /\ ContainersPresent /\ HasSelectedVertex /\ IsFinite(SelectedZ)
    /\ GeometryComplete
    /\ NTowers = 2
    /\ \E a, b \in DOMAIN towers : towers[a].v < 0 /\ towers[b].v > 0
    /\ Len(ret.jets) = 2

\* C2 as stated: if the z of the selected vertex is not finite (not-a-number or
\* an infinity), the call returns the empty sequence.
C2_AsStated ==
    (Called /\ HasSelectedVertex /\ ~IsFinite(SelectedZ)) => ReturnedEmpty

\* C2 (amended): if the z of the selected vertex is not-a-number, the call
\* returns the empty sequence, for every content of the tower container
\* (towers without a geometry entry included).
C2_NaNVertexEmpty ==
    (Called /\ HasSelectedVertex /\ IsNaN(SelectedZ)) => ReturnedEmpty

C2_Witness ==
    /\ Called /\ ContainersPresent /\ HasSelectedVertex /\ IsNaN(SelectedZ)
    /\ NTowers = 2
    /\ ~GeometryComplete
    /\ ReturnedEmpty

\* C3 as stated: with a selector that has no branch, the call returns the empty
\* sequence, never ends the process, and asks the node tree for nothing, in
\* every state of the event.
C3_AsStated ==
    (Called /\ _input \notin SupportedSRC)
        => (ReturnedEmpty /\ ret.lookups = <<>>)

\* C3 (amended): with a selector that has no branch and the vertex collection on
\* the tree, the call returns the empty sequence, does not end the process, and
\* has asked the tree for the vertex collection only: for no tower container and
\* no geometry container.
C3_UnknownSelector ==
    (Called /\ _input \notin SupportedSRC /\ VertexNode \in tree)
        => /\ ReturnedEmpty
           /\ alive
           /\ ret.lookups = <<VertexNode>>

C3_Witness ==
    /\ Called /\ _input \notin SupportedSRC /\ VertexNode \in tree
    /\ Cardinality(NodeNames \ tree) > 0
    /\ ReturnedEmpty

\* C4 as stated: if the tower container or the geometry container of the
\* selected source is missing, the call returns the empty sequence and does not
\* end the process, in every state of the vertex collection.
C4_AsStated ==
    (Called /\ _input \in SupportedSRC
        /\ (TowerNode(_input) \notin tree \/ GeomNode(_input) \notin tree))
        => (ReturnedEmpty /\ alive)

\* C4 (amended): if the vertex collection is on the tree and the tower container
\* or the geometry container of the selected source is missing, the call returns
\* the empty sequence and does not end the process, whatever the vertex
\* collection holds (nothing, a null entry, a NaN, infinite or finite z).
C4_MissingContainer ==
    (Called /\ _input \in SupportedSRC /\ VertexNode \in tree
        /\ (TowerNode(_input) \notin tree \/ GeomNode(_input) \notin tree))
        => (ReturnedEmpty /\ alive)

C4_Witness ==
    /\ Called /\ _input = "CEMC_TOWER_SUB1" /\ VertexNode \in tree
    /\ TowerNode(_input) \in tree /\ GeomNode(_input) \notin tree
    /\ Len(vertexmap) = 0
    /\ ReturnedEmpty /\ alive

\* C5: if the vertex collection is not on the tree, the call ends the process:
\* no sequence, empty or not, is returned, whatever the selector and the other
\* nodes; the outcome is not that of any call that returns.
C5_MissingVertexCollection ==
    (Called /\ VertexNode \notin tree)
        => (Fatal /\ ~ReturnedSeq /\ ret.exit = "L50")

C5_Witness ==
    /\ Called /\ VertexNode \notin tree
    /\ _input \notin SupportedSRC
    /\ Fatal

\* C6: with the containers present and a valid (finite) selected vertex, if some
\* tower has no geometry entry the call ends the process: no sequence is
\* returned, neither one without that tower nor the part built before it.
C6_MissingGeometryFatal ==
    (Called /\ ContainersPresent /\ HasSelectedVertex /\ IsFinite(SelectedZ)
        /\ ~GeometryComplete)
        => (Fatal /\ ret.exit = "L136")

C6_Witness ==
    /\ Called /\ ContainersPresent /\ HasSelectedVertex /\ IsFinite(SelectedZ)
    /\ NTowers = 2
    /\ IthTower(1) \in geom /\ IthTower(2) \notin geom
    /\ Fatal

\* C7: in a call that ran its loop to the end, the i-th output object comes from
\* the i-th tower in iteration order: its provenance list is exactly
\* <<(_input, id of that tower)>> and it carries that tower's energy; no two
\* towers share an output object.
C7_Provenance ==
    (Called /\ ret.exit = "L163")
        => /\ Len(ret.jets) = NTowers
           /\ \A i \in 1..Len(ret.jets) :
                /\ ret.jets[i].comp = <<<<_input, IthTower(i)>>>>
                /\ Len(ret.jets[i].comp) = 1

C7_Witness ==
    /\ Called /\ ret.exit = "L163"
    /\ Len(ret.jets) = 2
    /\ _input = "HCALOUT_TOWER_SUB1"
    /\ ret.jets[2].comp = <<<<"HCALOUT_TOWER_SUB1", 2>>>>

C9_Idempotent ==
    [][(ret.outcome # "none" /\ ret'.outcome # "none")
          => (ret'.outcome = ret.outcome /\ ret'.jets = ret.jets)]_vars

\* C10: in a call that ran its loop to the end, every output object's energy is
\* the energy of the tower it comes from, as stored in the tower container.
C10_RawEnergy ==
    (Called /\ ret.exit = "L163")
        => \A i \in 1..Len(ret.jets) :
             ret.jets[i].e = towers[ret.jets[i].comp[1][2]]

\* An output object on a shifted vertex whose momentum is not its energy.
C10_Witness ==
    /\ Called /\ ret.exit = "L163"
    /\ HasSelectedVertex /\ SelectedZ = Num(20)
    /\ Len(ret.jets) > 0
    /\ ret.jets[1].e = Num(10)
    /\ ret.jets[1].e = towers[1]
    /\ IsFinite(ret.jets[1].px) /\ ret.jets[1].px.v < Num(10).v
    /\ IsFinite(ret.jets[1].pz) /\ ret.jets[1].pz.v > 0

\* ---- C11 ----
\* The threads whose call saw a NaN vertex.
NaNCalls == {t \in Threads : threads[t].pc # "idle" /\ IsNaN(threads[t].vtxz)}

\* The threads that wrote the warning.
Warners == {t \in Threads : threads[t].warned}

\* C11 as stated: however many get_input calls with a NaN vertex run
\* concurrently, the warning is written at most twice in total, and every one
\* of those calls returns the empty sequence.
C11_AsStated ==
    /\ nWarn <= 2
    /\ \A t \in NaNCalls : threads[t].pc = "done" => threads[t].ret = <<>>

\* C11, amended: each concurrent call with a NaN vertex writes the warning at
\* most once, and only if it read `once` while it was still true, so the
\* warnings never outnumber those calls (but can equal their number); every
\* one of those calls returns the empty sequence and no other call warns.
C11_OnePerCall ==
    /\ nWarn = Cardinality(Warners)
    /\ Warners \subseteq NaNCalls
    /\ nWarn <= Cardinality(NaNCalls)
    /\ \A t \in Warners : threads[t].flag
    /\ \A t \in NaNCalls : threads[t].pc = "done" => threads[t].ret = <<>>

\* More than two concurrent calls all wrote the warning and returned empty.
C11_Witness ==
    /\ nWarn > 2
    /\ nWarn = Cardinality(NaNCalls)
    /\ \A t \in NaNCalls : threads[t].pc = "done" /\ threads[t].ret = <<>>

\* ---- C12 ----
\* 1e-4 in the fixed point of the model: the tolerance of the worked example.
Tol == Scale \div 10 ^ 4

\* The tolerance of the relations between components, each of which the model
\* holds rounded to 1 / Scale after a product with a rounded cosine or sine.
RelTol == 3 * (Scale \div 10 ^ 3)

Near(a, b, tol) == Abs(a - b) <= tol

\* a^2 / |e| for finite a and e # 0.
SqOver(a, e) == MulDiv(a.v, a.v, Abs(e.v))

\* The energy, the centre and the vertex z of the transformed tower are finite,
\* with e # 0 and r # 0, and so are the momentum components.
KinFinite ==
    /\ \A f \in {"energy", "x", "y", "z", "r", "vtxz"} : IsFinite(kin.in[f])
    /\ kin.in.energy.v # 0 /\ kin.in.r.v # 0
    /\ IsFinite(kin.out.px) /\ IsFinite(kin.out.py) /\ IsFinite(kin.out.pz)

\* px^2 + py^2 + pz^2 = E^2 (pt * cosh(eta) = E), stated as p^2 / |E| = |E|.
KinNorm ==
    Near(SqOver(kin.out.px, kin.in.energy) + SqOver(kin.out.py, kin.in.energy)
            + SqOver(kin.out.pz, kin.in.energy),
         Abs(kin.in.energy.v), RelTol)

\* The larger of |x| and |y| of the transformed tower, at least 1.
KinSpan == Max(Scale, Max(Abs(kin.in.x.v), Abs(kin.in.y.v)))

\* (px, py) points along (x, y) for E > 0 and against it for E < 0
\* (phi = atan2(y, x), px = pt cos(phi), py = pt sin(phi), pt of E's sign);
\* atan2(0, 0) = 0 puts the momentum on the x axis.
KinAzimuth ==
    /\ Near(MulDiv(kin.out.px.v, kin.in.y.v, KinSpan),
            MulDiv(kin.out.py.v, kin.in.x.v, KinSpan), RelTol)
    /\ kin.out.px.v * Sign(kin.in.energy.v) * Sign(kin.in.x.v) >= 0
    /\ kin.out.py.v * Sign(kin.in.energy.v) * Sign(kin.in.y.v) >= 0
    /\ (kin.in.x.v = 0 /\ kin.in.y.v = 0) =>
           (kin.out.py.v = 0 /\ kin.out.px.v * Sign(kin.in.energy.v) > 0)

\* pz / pt = sinh(eta) = (z - vtxz) / r, stated on the squares over |E|, and
\* pz has the sign of E * (z - vtxz).
KinPolar ==
    /\ Near(MulDiv(SqOver(kin.out.pz, kin.in.energy), kin.in.r.v,
                   Abs(kin.in.z.v - kin.in.vtxz.v)),
            MulDiv(SqOver(kin.out.px, kin.in.energy) + SqOver(kin.out.py, kin.in.energy),
                   Abs(kin.in.z.v - kin.in.vtxz.v), kin.in.r.v),
            RelTol)
    /\ kin.out.pz.v * Sign(kin.in.energy.v) * Sign(kin.in.z.v - kin.in.vtxz.v) > 0

\* The worked example: px = 8.9443, py = 0, pz = 4.4721, E = 10 within 1e-4.
KinExample ==
    /\ Near(kin.out.px.v, 89443 * Tol, Tol)
    /\ Near(kin.out.py.v, 0, Tol)
    /\ Near(kin.out.pz.v, 44721 * Tol, Tol)
    /\ Near(kin.out.e.v, Num(10).v, Tol)

\* C12: the transform follows phi = atan2(y, x), eta = asinh((z - vtxz) / r),
\* pt = E / cosh(eta), px = pt cos(phi), py = pt sin(phi), pz = pt sinh(eta):
\* for every finite tower with r # 0 the Jet carries the raw energy and a
\* momentum of magnitude |E|, of the azimuth of (x, y) and of the polar slope
\* (z - vtxz) / r; and for energy 10, centre (100, 0, 50), radius 100, vertex z
\* 0 the Jet is px = 8.9443, py = 0, pz = 4.4721, E = 10 within 1e-4.
C12_Kinematics ==
    kin.done =>
        /\ KinFinite
        /\ kin.out.e = kin.in.energy
        /\ KinNorm
        /\ KinAzimuth
        /\ KinPolar
        /\ (kin.in = ExampleTower => KinExample)

\* The worked example has been transformed.
C12_Witness ==
    /\ kin.done
    /\ kin.in = ExampleTower
    /\ KinExample

\* ---- C13 ----
\* C13: the vertex of a call is the first entry of the vertex collection: on
\* two collections with the same first entry, whatever their other entries,
\* get_input ends the same way, returns the same sequence and leaves the same
\* trace (exit, lookups, warning, `once`).
C13_FirstVertexOnly ==
    (pair.ra.outcome # "none" /\ pair.rb.outcome # "none") => pair.ra = pair.rb

\* get_input returned Jets on two collections that differ after their first
\* entry, one of them with a NaN vertex there.
C13_Witness ==
    /\ pair.ra.outcome = "returned" /\ pair.rb.outcome = "returned"
    /\ pair.ra.jets # <<>>
    /\ pair.a # pair.b
    /\ Len(pair.a) > 1 /\ pair.a[2].ptr = "obj" /\ IsNaN(pair.a[2].z)

\* ---- C14 ----
\* The towers of the tower container whose geometry has radius zero.
ZeroRadiusTowers == {k \in DOMAIN towers : TowerGeomOf(k).r = Num(0)}

\* The place of tower k in the container's iteration order.
PositionOf(k) == Cardinality({j \in DOMAIN towers : j <= k})

\* C14: a tower of radius zero is not special-cased: with both containers
\* present, every tower having a geometry entry and a finite selected vertex z,
\* the call runs its loop to the end and returns one object per tower, and the
\* object at the place of each radius-zero tower carries that tower's raw energy
\* and its (source, id) provenance entry, whatever its momentum.
C14_ZeroRadiusKept ==
    (Called /\ ContainersPresent /\ GeometryComplete
        /\ HasSelectedVertex /\ IsFinite(SelectedZ))
        => /\ ReturnedSeq /\ alive /\ ret.exit = "L163"
           /\ Len(ret.jets) = NTowers
           /\ \A k \in ZeroRadiusTowers :
                /\ ret.jets[PositionOf(k)].e = towers[k]
                /\ ret.jets[PositionOf(k)].comp = <<<<_input, k>>>>

\* A call returned, after a tower of finite momentum, the object of a
\* radius-zero tower: raw energy, and a momentum that is not a number along z.
C14_Witness ==
    /\ Called /\ ContainersPresent /\ GeometryComplete
    /\ HasSelectedVertex /\ IsFinite(SelectedZ)
    /\ 2 \in ZeroRadiusTowers /\ PositionOf(2) = 2
    /\ ReturnedSeq /\ Len(ret.jets) = 2
    /\ IsFinite(ret.jets[1].pz)
    /\ ret.jets[2].e = towers[2]
    /\ IsNaN(ret.jets[2].pz)

\* ---- C15 ----
\* The call got to line 110 and read the first entry of the vertex collection:
\* it did not leave at the vertex-collection assert, at a missing container or
\* at the last else of the selector chain.
ReadFirstVertex == Called /\ ret.exit \notin {"L50", "L61", "L106"}

\* C15: get_input reads the first vertex only from a collection that has one,
\* and on a vertex collection that is present with no entry, or whose first
\* entry holds no vertex object, it returns the empty sequence.
C15_ReadsExistingEntry ==
    /\ ReadFirstVertex => Len(vertexmap) > 0
    /\ (Called /\ VertexNode \in tree
            /\ (Len(vertexmap) = 0 \/ vertexmap[1].ptr = "null"))
         => ReturnedEmpty

\* ---- C16 ----
\* The tracks of the vertex, up to the i-th, that resolve to truth vertex v.
TracksOf(v, i) ==
    {j \in 1..i : row.tracks[j].kind = "truth" /\ row.tracks[j].vtx = v}

\* The truth vertices some track of the vertex resolves to.
MatchedTruth == {v \in 1..MaxTruthVtx : TracksOf(v, Len(row.tracks)) # {}}

\* The number of tracks of the vertex that resolve to truth vertex v.
Votes(v) == Cardinality(TracksOf(v, Len(row.tracks)))

\* The place in the track order at which v gets its n-th track.
ReachedAt(v, n) ==
    CHOOSE i \in 1..Len(row.tracks) :
        Cardinality(TracksOf(v, i)) = n /\ Cardinality(TracksOf(v, i - 1)) = n - 1

\* C16: in a row that fill_vertex_tree fills for a vertex with at least one
\* track that resolves to a truth vertex, the truth fields are filled, the
\* reported truth vertex is one shared by the largest number of the vertex's
\* tracks, n_from_truth is that number, and among truth vertices with that
\* number the one that reached it first in track order is reported.
C16_MajorityVote ==
    (row.outcome = "filled" /\ MatchedTruth # {})
        => /\ row.out.filled
           /\ row.out.gTrackID \in MatchedTruth
           /\ \A v \in MatchedTruth : Votes(v) <= Votes(row.out.gTrackID)
           /\ row.out.nFromTruth = Votes(row.out.gTrackID)
           /\ \A v \in MatchedTruth :
                Votes(v) = Votes(row.out.gTrackID)
                    => ReachedAt(row.out.gTrackID, Votes(v)) <= ReachedAt(v, Votes(v))

====
